---------------------------- MODULE Spec2Model ----------------------------
(***************************************************************************)
(* A model of the bilibili-summarizer pipeline (src/main.py and its        *)
(* helpers): startup cache eviction, the two batch orchestrators, the page *)
(* processor with its retry loop, the subtitle resolver with its on-disk   *)
(* cache, and the output writer.  The two directories (cache and output)   *)
(* outlive a process, so the model runs the program several times against  *)
(* the same directories.                                                   *)
(*                                                                         *)
(* Text is a sequence of one-character strings; Python's None is NoneVal.  *)
(* External services (video platform, HTTP, audio download, completion     *)
(* service, file system errors) are nondeterministic choices.              *)
(***************************************************************************)
EXTENDS Integers, Sequences, FiniteSets, TLC

-----------------------------------------------------------------------------
(* Bounds of the model.                                                    *)

\* Number of times the program is started against the same directories.
MaxRuns == 2

-----------------------------------------------------------------------------
(* Program constants.                                                      *)

CACHE_MAX_AGE_DAYS == 30

\* One attempt more than the budget of main.py:107.
max_retries_plus_one == 3 + 1

max_retries == 3

\* Seconds in max_age_days days, as cleanup_cache computes it.
MaxAgeSeconds(max_age_days) == max_age_days * 24 * 60 * 60

-----------------------------------------------------------------------------
(* Python values.                                                          *)

\* None: distinct from every str (no str has an element of several letters).
NoneVal == <<"<None>">>

\* The empty str.
EmptyStr == <<>>

\* bool(x) for x: Optional[str].
Truthy(x) == x # NoneVal /\ x # EmptyStr

\* str.isspace() on one character.
IsSpace(c) == c \in {" ", "\n", "\r"}

\* str.isalnum() on one character.
IsAlnum(c) == c \in {"a", "b", "c", "S", "T", "0", "1", "2", "3", "4", "5",
                     "6", "7", "8", "9"}

RECURSIVE RStrip(_)
\* str.rstrip(): trailing whitespace removed.
RStrip(s) ==
    IF s = <<>> THEN <<>>
    ELSE IF IsSpace(s[Len(s)]) THEN RStrip(SubSeq(s, 1, Len(s) - 1))
    ELSE s

RECURSIVE LStrip(_)
\* str.lstrip(): leading whitespace removed.
LStrip(s) ==
    IF s = <<>> THEN <<>>
    ELSE IF IsSpace(s[1]) THEN LStrip(Tail(s))
    ELSE s

\* str.strip().
Strip(s) == RStrip(LStrip(s))

RECURSIVE ReadText(_)
\* f.read() of a file opened in text mode with the default newline=None:
\* "\r\n" and "\r" come back as "\n" (universal newlines).  Written with the
\* same default on POSIX, the text s is the content of the file.
ReadText(s) ==
    IF s = <<>> THEN <<>>
    ELSE IF s[1] = "\r"
         THEN <<"\n">> \o ReadText(IF Len(s) >= 2 /\ s[2] = "\n"
                                    THEN SubSeq(s, 3, Len(s)) ELSE Tail(s))
         ELSE <<s[1]>> \o ReadText(Tail(s))

\* A test of emptiness that forgets to strip the text.
BlankUnstripped(x) == ~Truthy(x)

\* `not subtitle_text or not subtitle_text.strip()` (main.py:116), and the
\* negation of `subtitle_text and subtitle_text.strip()` (main.py:96).
IsBlank(x) == ~Truthy(x) \/ ~Truthy(Strip(x))

\* The character filter of the filename sanitizer.
KeepChar(c) == IsAlnum(c) \/ c \in {" ", ".", "_", "-"}

\* safe_filename: the kept characters of the title, right-stripped.
Sanitize(filename) == RStrip(SelectSeq(filename, KeepChar))

DigitChars == <<"0", "1", "2", "3", "4", "5", "6", "7", "8", "9">>

RECURSIVE Decimal(_)
\* str(n) for n >= 0.
Decimal(n) ==
    IF n < 10 THEN <<DigitChars[n + 1]>>
    ELSE Decimal(n \div 10) \o <<DigitChars[(n % 10) + 1]>>

RECURSIVE ZeroPad(_, _)
\* The format spec 0<w>d: zeros on the left up to width w, never cut.
ZeroPad(s, w) == IF Len(s) >= w THEN s ELSE ZeroPad(<<"0">> \o s, w)

\* os.path.join(output_dir, f"P{page_number:03d}_{safe_filename}.md"); the
\* output directory is the same for every run of the model.
OutputPath(page_number, filename) ==
    <<"P">> \o ZeroPad(Decimal(page_number), 3) \o <<"_">>
            \o Sanitize(filename) \o <<".", "m", "d">>

\* cache_key = f"{bvid}_{page_number}", the cache file being
\* CACHE_DIR/<cache_key>.txt.
CacheFilePath(bvid, page_number) ==
    <<bvid, "_">> \o Decimal(page_number) \o <<".", "t", "x", "t">>

-----------------------------------------------------------------------------
(* The platform's data, unchanged across runs: a season of two videos, the *)
(* first with two pages and the second with one, and a season without any  *)
(* video.                                                                  *)

Archives ==
    << [bvid  |-> "BV1",
        pages |-> << [page |-> 1, part |-> <<"a">>],
                     [page |-> 2, part |-> <<"b", "/", " ">>] >>],
       [bvid  |-> "BV2",
        pages |-> << [page |-> 1, part |-> <<"c", ":">>] >>] >>

Bvids == {Archives[i].bvid : i \in 1..Len(Archives)}

PagesOf(bvid) ==
    LET i == CHOOSE j \in 1..Len(Archives) : Archives[j].bvid = bvid
    IN  Archives[i].pages

\* The "archives" of the series, by --season-id: the two videos, and none.
Seasons == <<Archives, <<>>>>

\* The videos --bvid is tried with.
BvidChoices == {"BV1"}

\* The page-range choices of the command line tried by the model: start_page
\* and end_page (<<>> is None, <<n>> is n).
StartPages == {1, 2}
EndPages == {<<>>, <<1>>}

\* The command lines the model starts the program with (main.py:213-224):
\* --bvid and --season-id are mutually exclusive (the one not given is None,
\* "-" for the bvid and <<>> for the id), the page range only counts for
\* --bvid and defaults to 1 and None.
ArgsSet ==
    [mode : {"bvid"}, bvid : BvidChoices, season_id : {<<>>},
     start_page : StartPages, end_page : EndPages]
    \cup
    [mode : {"season"}, bvid : {"-"}, season_id : {<<i>> : i \in DOMAIN Seasons},
     start_page : {1}, end_page : {<<>>}]

\* Seconds between the start of one run and the start of the next: one
\* second less than the maximum age.
RerunAfter == MaxAgeSeconds(CACHE_MAX_AGE_DAYS) - 1

\* The cache directory the first run finds: three files of earlier runs on
\* another video, written three, two and one second before it starts.  At
\* the second run's cleanup the third and the first are older than the
\* cutoff, the second is exactly at it, and what the first run cached is
\* newer.
InitialCache ==
    (CacheFilePath("BV0", 1) :> [text |-> <<"T">>, mtime |-> 0 - 2])
    @@ (CacheFilePath("BV0", 2) :> [text |-> <<"T">>, mtime |-> 0 - 1])
    @@ (CacheFilePath("BV0", 3) :> [text |-> <<"T">>, mtime |-> 0 - 3])

-----------------------------------------------------------------------------
VARIABLES
    run,                 \* number of the current process (1..MaxRuns)
    now,                 \* time.time() of the current process, in seconds
    args,                \* the parsed command line of the current process
    prompt_exists,       \* whether prompt/<args.prompt>.md exists
    cache,               \* CACHE_DIR: file path -> [text, mtime]
    out,                 \* args.output_dir: file path -> text
    pc,                  \* where the process is
    cleanups,            \* calls of cleanup_cache in the current process
    vidx,                \* process_season: index of video_info in the archives
    all_pages,           \* the page list being iterated
    idx,                 \* index in all_pages of the next page
    global_page_counter, \* process_season's counter
    page_details,        \* process_page: the page
    save_page_number,    \* process_page: _save_page_number
    attempt,             \* process_page: the loop variable
    subtitle_text,       \* get_subtitle's result, process_page's subtitle_text
    summary,             \* process_page: summary
    outcomes,            \* how each attempt of the current process_page call ended
    sleeps,              \* the asyncio.sleep durations of the current call
    resolved,            \* the texts get_subtitle's collaborators gave this call
    in_flight,           \* the pages process_page was called for and has not left
    calls,               \* the collaborators called in the current attempt
    issued,              \* the pages the orchestrator came to in this run
    cleanup_errors,      \* the files cleanup_cache just logged an error for
    unsummarized         \* output paths whose summary came back absent or empty

fsVars == <<cache, out>>
procVars == <<run, now, args, prompt_exists, cleanups, cleanup_errors>>
orchVars == <<vidx, all_pages, idx, global_page_counter, issued>>
pageVars == <<page_details, in_flight, save_page_number, attempt, subtitle_text,
              summary>>
histVars == <<outcomes, sleeps, resolved, calls, unsummarized>>

vars == <<run, now, args, prompt_exists, cache, out, pc, cleanups, vidx,
          all_pages, idx, global_page_counter, page_details,
          save_page_number, attempt, subtitle_text, summary, outcomes,
          sleeps, resolved, in_flight, calls, issued, cleanup_errors,
          unsummarized>>

NoPage == [page |-> 0, part |-> <<>>]

NoCalls == {}

\* A test of existence that never finds the file.
ExistsNever(dir, path) == FALSE

\* os.path.exists(path) in a directory.
Exists(dir, path) == path \in DOMAIN dir

\* The directory after open(path, "w") ... f.write(content) completed.
WriteFile(dir, path, content) == (path :> content) @@ dir

\* The directory after os.remove of every file of `files`.
RemoveFiles(dir, files) == [p \in (DOMAIN dir) \ files |-> dir[p]]

\* The locals of the orchestrators and of process_page before they are set.
FreshLocals ==
    /\ vidx = 0
    /\ all_pages = <<>>
    /\ idx = 0
    /\ global_page_counter = 0
    /\ page_details = NoPage
    /\ in_flight = {}
    /\ save_page_number = 0
    /\ attempt = 0
    /\ subtitle_text = NoneVal
    /\ summary = NoneVal
    /\ outcomes = <<>>
    /\ sleeps = <<>>
    /\ resolved = <<>>
    /\ calls = NoCalls
    /\ issued = <<>>

FreshLocalsNext ==
    /\ vidx' = 0
    /\ all_pages' = <<>>
    /\ idx' = 0
    /\ global_page_counter' = 0
    /\ page_details' = NoPage
    /\ in_flight' = {}
    /\ save_page_number' = 0
    /\ attempt' = 0
    /\ subtitle_text' = NoneVal
    /\ summary' = NoneVal
    /\ outcomes' = <<>>
    /\ sleeps' = <<>>
    /\ resolved' = <<>>
    /\ calls' = NoCalls
    /\ issued' = <<>>

\* The first process starts on an empty output directory and a cache
\* directory holding one file of an earlier run.
Init ==
    /\ run = 1
    /\ now = 0
    /\ args \in ArgsSet
    /\ prompt_exists \in BOOLEAN
    /\ cache = InitialCache
    /\ out = <<>>
    /\ pc = "main"
    /\ cleanups = 0
    /\ cleanup_errors = {}
    /\ unsummarized = {}
    /\ FreshLocals

-----------------------------------------------------------------------------
(* main and cleanup_cache                                                  *)

\* main.py:23.
CutoffTime(max_age_days) == now - MaxAgeSeconds(max_age_days)

\* The comparison of main.py:30 reversed: the files newer than the cutoff.
OutdatedReversed(directory, max_age_days) ==
    {p \in DOMAIN directory : directory[p].mtime > CutoffTime(max_age_days)}

\* main.py:30: the files cleanup_cache finds outdated.
Outdated(directory, max_age_days) ==
    {p \in DOMAIN directory : directory[p].mtime < CutoffTime(max_age_days)}

\* A cleanup_cache whose loop is left at the first OSError: here, one that
\* removes nothing when a file that was to be removed fails.
cleanup_cache_aborting(directory, max_age_days, failing) ==
    IF Outdated(directory, max_age_days) \cap failing = {}
    THEN RemoveFiles(directory, Outdated(directory, max_age_days))
    ELSE directory

\* cleanup_cache's loop: every outdated file is removed, except those of
\* `failing`, for which os.path.getmtime or os.remove raises OSError (caught
\* and logged per file).
cleanup_cache(directory, max_age_days, failing) ==
    RemoveFiles(directory, Outdated(directory, max_age_days) \ failing)

\* main.py:226-228: the cache directory is created and cleaned up.  Any of
\* its files may be one the operating system refuses to stat or to remove.
Main ==
    /\ pc = "main"
    /\ \E failing \in SUBSET DOMAIN cache :
           /\ cache' = cleanup_cache(cache, CACHE_MAX_AGE_DAYS, failing)
           /\ cleanup_errors' = failing
    /\ cleanups' = cleanups + 1
    /\ pc' = "dispatch"
    /\ UNCHANGED <<run, now, args, prompt_exists, out>>
    /\ UNCHANGED <<orchVars, pageVars, histVars>>

\* main.py:241-244.
Dispatch ==
    /\ pc = "dispatch"
    /\ pc' = IF args.mode = "season" THEN "season_videos" ELSE "bvid_setup"
    /\ cleanup_errors' = {}
    /\ UNCHANGED <<run, now, args, prompt_exists, cleanups>>
    /\ UNCHANGED <<fsVars, orchVars, pageVars, histVars>>

-----------------------------------------------------------------------------
(* read_prompt and the calls of process_page                               *)

\* A read_prompt that gives a text when the file is missing.
read_prompt_lenient(exists) == "content"

\* read_prompt: the file's content, or FileNotFoundError when it is missing.
read_prompt(exists) == IF exists THEN "content" ELSE "FileNotFoundError"

\* video_list["archives"] of process_season (main.py:177-182).
video_list ==
    IF args.mode = "season" THEN Seasons[args.season_id[1]] ELSE <<>>

\* The bvid process_page and get_subtitle are called with.
CurrentBvid == IF args.mode = "season" THEN video_list[vidx].bvid ELSE args.bvid

\* process_page's first lines (main.py:105-109) for a call with page `p` and
\* save_page_number `n` (<<>> is None).
CallProcessPage(p, n) ==
    /\ page_details' = p
    /\ in_flight' = in_flight \cup {[bvid |-> CurrentBvid, page |-> p.page]}
    /\ save_page_number' = IF n # <<>> THEN n[1] ELSE p.page
    /\ attempt' = 0
    /\ subtitle_text' = NoneVal
    /\ summary' = NoneVal
    /\ outcomes' = <<>>
    /\ sleeps' = <<>>
    /\ resolved' = <<>>
    /\ calls' = NoCalls
    /\ pc' = "pp_loop"

\* process_page has returned: its locals are gone.
DropPageLocals ==
    /\ page_details' = NoPage
    /\ in_flight' =
           in_flight \ {[bvid |-> CurrentBvid, page |-> page_details.page]}
    /\ save_page_number' = 0
    /\ attempt' = 0
    /\ subtitle_text' = NoneVal
    /\ summary' = NoneVal
    /\ outcomes' = <<>>
    /\ sleeps' = <<>>
    /\ resolved' = <<>>
    /\ calls' = NoCalls

-----------------------------------------------------------------------------
(* process_bvid                                                            *)

\* The filter with the end of the range excluded.
PagesToProcessExclusive(pages, start_page, end_page) ==
    LET InRange(p) == /\ p.page >= start_page
                      /\ (end_page = <<>> \/ p.page < end_page[1])
    IN  SelectSeq(pages, InRange)

\* pages_to_process (main.py:150-153).
PagesToProcess(pages, start_page, end_page) ==
    LET InRange(p) == /\ p.page >= start_page
                      /\ (end_page = <<>> \/ p.page <= end_page[1])
    IN  SelectSeq(pages, InRange)

\* main.py:140-153: the prompt is read (uncaught when missing), the pages
\* are fetched (any exception: logged, return) and filtered.
BvidSetup ==
    /\ pc = "bvid_setup"
    /\ IF read_prompt(prompt_exists) = "FileNotFoundError"
       THEN pc' = "crashed" /\ UNCHANGED <<all_pages, idx>>
       ELSE \/ /\ pc' = "exit"
               /\ UNCHANGED <<all_pages, idx>>
            \/ /\ all_pages' = PagesToProcess(PagesOf(args.bvid),
                                              args.start_page, args.end_page)
               /\ idx' = 1
               /\ pc' = "bvid_loop"
    /\ UNCHANGED <<procVars, fsVars, vidx, global_page_counter, issued>>
    /\ UNCHANGED <<pageVars, histVars>>

\* main.py:155: the loop is over.
BvidDone ==
    /\ pc = "bvid_loop"
    /\ idx > Len(all_pages)
    /\ pc' = "exit"
    /\ UNCHANGED <<procVars, fsVars, orchVars, pageVars, histVars>>

\* What `issued` records of a page the orchestrator comes to: the page, the
\* number of its output file, and whether it is skipped.
Enumerated(bvid, page, number, skipped) ==
    [bvid |-> bvid, page |-> page.page, number |-> number, skipped |-> skipped]

\* main.py:163-166: the checkpoint file exists, the page is skipped.
BvidSkip ==
    /\ pc = "bvid_loop"
    /\ idx <= Len(all_pages)
    /\ LET page == all_pages[idx]
       IN  /\ Exists(out, OutputPath(page.page, page.part))
           /\ issued' = Append(issued,
                               Enumerated(args.bvid, page, page.page, TRUE))
    /\ idx' = idx + 1
    /\ UNCHANGED <<pc, procVars, fsVars, vidx, all_pages, global_page_counter,
                   pageVars, histVars>>

\* process_page started as a task that the loop does not await: the loop
\* goes on to the next page at once.
BvidCallNoAwait ==
    /\ pc = "bvid_loop"
    /\ idx <= Len(all_pages)
    /\ LET page == all_pages[idx]
       IN  /\ ~Exists(out, OutputPath(page.page, page.part))
           /\ issued' = Append(issued,
                               Enumerated(args.bvid, page, page.page, FALSE))
           /\ in_flight' =
                  in_flight \cup {[bvid |-> args.bvid, page |-> page.page]}
    /\ idx' = idx + 1
    /\ UNCHANGED <<pc, procVars, fsVars, vidx, all_pages, global_page_counter,
                   page_details, save_page_number, attempt, subtitle_text,
                   summary, histVars>>

\* main.py:168.
BvidCall ==
    /\ pc = "bvid_loop"
    /\ idx <= Len(all_pages)
    /\ LET page == all_pages[idx]
       IN  /\ ~Exists(out, OutputPath(page.page, page.part))
           /\ issued' = Append(issued,
                               Enumerated(args.bvid, page, page.page, FALSE))
           /\ CallProcessPage(page, <<>>)
    /\ UNCHANGED <<procVars, fsVars, vidx, all_pages, idx,
                   global_page_counter, unsummarized>>

\* process_page returned to process_bvid: the next page.
BvidNext ==
    /\ pc = "pp_return"
    /\ args.mode = "bvid"
    /\ idx' = idx + 1
    /\ pc' = "bvid_loop"
    /\ DropPageLocals
    /\ UNCHANGED <<procVars, fsVars, vidx, all_pages, global_page_counter,
                   issued, unsummarized>>

-----------------------------------------------------------------------------
(* process_season                                                          *)

\* main.py:172-181: the series' videos are fetched (an exception is not
\* caught here) and the counter starts.
SeasonVideos ==
    /\ pc = "season_videos"
    /\ \/ /\ pc' = "crashed"
          /\ UNCHANGED <<vidx, global_page_counter>>
       \/ /\ vidx' = 1
          /\ global_page_counter' = 1
          /\ pc' = "season_loop"
    /\ UNCHANGED <<procVars, fsVars, all_pages, idx, issued, pageVars,
                   histVars>>

\* main.py:182: the loop over the videos is over.
SeasonDone ==
    /\ pc = "season_loop"
    /\ vidx > Len(video_list)
    /\ pc' = "exit"
    /\ UNCHANGED <<procVars, fsVars, orchVars, pageVars, histVars>>

\* process_season's step on a video, had the counter been advanced over the
\* pages of a video whose page list could not be fetched.
SeasonVideoCounting ==
    /\ pc = "season_loop"
    /\ vidx <= Len(video_list)
    /\ IF read_prompt(prompt_exists) = "FileNotFoundError"
       THEN /\ pc' = "crashed"
            /\ UNCHANGED <<vidx, all_pages, idx, global_page_counter>>
       ELSE \/ /\ vidx' = vidx + 1
               /\ global_page_counter' =
                      global_page_counter + Len(video_list[vidx].pages)
               /\ UNCHANGED <<pc, all_pages, idx>>
            \/ /\ all_pages' = video_list[vidx].pages
               /\ idx' = 1
               /\ pc' = "season_pages"
               /\ UNCHANGED <<vidx, global_page_counter>>
    /\ UNCHANGED <<procVars, fsVars, issued, pageVars, histVars>>

\* main.py:183-192: the prompt is read (uncaught when missing) and the
\* video's pages are fetched (any exception: logged, next video).
SeasonVideo ==
    /\ pc = "season_loop"
    /\ vidx <= Len(video_list)
    /\ IF read_prompt(prompt_exists) = "FileNotFoundError"
       THEN pc' = "crashed" /\ UNCHANGED <<vidx, all_pages, idx>>
       ELSE \/ /\ vidx' = vidx + 1
               /\ UNCHANGED <<pc, all_pages, idx>>
            \/ /\ all_pages' = video_list[vidx].pages
               /\ idx' = 1
               /\ pc' = "season_pages"
               /\ UNCHANGED vidx
    /\ UNCHANGED <<procVars, fsVars, global_page_counter, issued, pageVars,
                   histVars>>

\* main.py:196: the video's pages are done, the next video.
SeasonVideoDone ==
    /\ pc = "season_pages"
    /\ idx > Len(all_pages)
    /\ vidx' = vidx + 1
    /\ pc' = "season_loop"
    /\ UNCHANGED <<procVars, fsVars, all_pages, idx, global_page_counter,
                   issued, pageVars, histVars>>

\* A counter that is not incremented.
SameCounter(counter) == counter

\* The counter after one page (main.py:206 and 210).
NextCounter(counter) == counter + 1

\* main.py:203-207: the checkpoint file exists, the page is skipped.
SeasonSkip ==
    /\ pc = "season_pages"
    /\ idx <= Len(all_pages)
    /\ Exists(out, OutputPath(global_page_counter, all_pages[idx].part))
    /\ issued' = Append(issued, Enumerated(video_list[vidx].bvid, all_pages[idx],
                                           global_page_counter, TRUE))
    /\ global_page_counter' = NextCounter(global_page_counter)
    /\ idx' = idx + 1
    /\ UNCHANGED <<pc, procVars, fsVars, vidx, all_pages, pageVars, histVars>>

\* main.py:209.
SeasonCall ==
    /\ pc = "season_pages"
    /\ idx <= Len(all_pages)
    /\ ~Exists(out, OutputPath(global_page_counter, all_pages[idx].part))
    /\ issued' = Append(issued, Enumerated(video_list[vidx].bvid, all_pages[idx],
                                           global_page_counter, FALSE))
    /\ CallProcessPage(all_pages[idx], <<global_page_counter>>)
    /\ UNCHANGED <<procVars, fsVars, vidx, all_pages, idx,
                   global_page_counter, unsummarized>>

\* process_page returned to process_season (main.py:210): the next page.
SeasonNext ==
    /\ pc = "pp_return"
    /\ args.mode = "season"
    /\ global_page_counter' = NextCounter(global_page_counter)
    /\ idx' = idx + 1
    /\ pc' = "season_pages"
    /\ DropPageLocals
    /\ UNCHANGED <<procVars, fsVars, vidx, all_pages, issued, unsummarized>>

-----------------------------------------------------------------------------
(* process_page: the retry loop and its exception handlers                 *)

\* What an external call may raise.  asyncio.TimeoutError and
\* aiohttp.ClientError are the two classes process_page retries on.
ExceptionClasses == {"aiohttp.ClientError", "asyncio.TimeoutError", "Exception"}

\* The classes of `except (aiohttp.ClientError, asyncio.TimeoutError)`.
IsTransient(e) == e \in {"aiohttp.ClientError", "asyncio.TimeoutError"}

\* A backoff counted from the attempt's 0-based index: 0s, 5s, ...
BackoffFromZero(a) == 5 * a

\* The argument of asyncio.sleep (main.py:133).
Backoff(a) == 5 * (a + 1)

\* The end of an attempt, as `outcomes` records it.
Outcome(res, stage) == [res |-> res, at |-> stage]

CountCall(c) == calls' = calls \cup {c}

\* An exception of class e raised inside the try block by `stage`
\* (main.py:128-136): a transient one ends the attempt, and is followed by
\* a sleep unless it was the last attempt; any other one leaves the loop.
Raise(e, stage) ==
    IF IsTransient(e)
    THEN /\ outcomes' = Append(outcomes, Outcome("transient", stage))
         /\ IF attempt + 1 = max_retries
            THEN pc' = "pp_loop" /\ attempt' = attempt + 1
            ELSE pc' = "pp_sleep" /\ attempt' = attempt
    ELSE /\ outcomes' = Append(outcomes, Outcome("other", stage))
         /\ pc' = "pp_return"
         /\ attempt' = attempt

\* main.py:111: the next iteration of `for attempt in range(max_retries)`
\* enters the try block and calls get_subtitle.
PpAttempt ==
    /\ pc = "pp_loop"
    /\ attempt < max_retries
    /\ pc' = "gs_cache"
    /\ calls' = NoCalls
    /\ UNCHANGED <<procVars, fsVars, orchVars, pageVars, outcomes, sleeps, resolved,
                   unsummarized>>

\* main.py:111: the range is exhausted, process_page returns.
PpExhausted ==
    /\ pc = "pp_loop"
    /\ attempt >= max_retries
    /\ pc' = "pp_return"
    /\ UNCHANGED <<procVars, fsVars, orchVars, pageVars, histVars>>

\* main.py:133: the backoff sleep, then the next iteration.
PpSleep ==
    /\ pc = "pp_sleep"
    /\ sleeps' = Append(sleeps, Backoff(attempt))
    /\ attempt' = attempt + 1
    /\ pc' = "pp_loop"
    /\ UNCHANGED <<procVars, fsVars, orchVars, page_details, in_flight, save_page_number,
                   subtitle_text, summary, outcomes, resolved, calls,
                   unsummarized>>

-----------------------------------------------------------------------------
(* get_subtitle                                                            *)

CacheFile == CacheFilePath(CurrentBvid, page_details.page)

\* The cache file is never found.
CacheNeverHit == FALSE

\* main.py:68: whether the cache file of the page exists.
CacheHit == Exists(cache, CacheFile)

\* main.py:68-71: the cache file exists, its content is returned.
GsCacheHit ==
    /\ pc = "gs_cache"
    /\ CacheHit
    /\ subtitle_text' = ReadText(cache[CacheFile].text)
    /\ pc' = "pp_check"
    /\ UNCHANGED <<procVars, fsVars, orchVars, page_details, in_flight, save_page_number,
                   attempt, summary, histVars>>

\* main.py:74: no cache file.
GsCacheMiss ==
    /\ pc = "gs_cache"
    /\ ~CacheHit
    /\ pc' = "gs_cid"
    /\ UNCHANGED <<procVars, fsVars, orchVars, pageVars, histVars>>

\* main.py:75: v.get_cid.
GsCid ==
    /\ pc = "gs_cid"
    /\ CountCall("get_cid")
    /\ \/ /\ pc' = "gs_meta"
          /\ UNCHANGED <<attempt, outcomes>>
       \/ \E e \in ExceptionClasses : Raise(e, "resolver")
    /\ UNCHANGED <<procVars, fsVars, orchVars, page_details, in_flight, save_page_number,
                   subtitle_text, summary, sleeps, resolved, unsummarized>>

\* main.py:76-81 and 89: v.get_subtitle, and whether it lists a subtitle.
GsMeta ==
    /\ pc = "gs_meta"
    /\ CountCall("get_subtitle")
    /\ \/ /\ pc' \in {"gs_http", "gs_audio"}
          /\ UNCHANGED <<attempt, outcomes>>
       \/ \E e \in ExceptionClasses : Raise(e, "resolver")
    /\ UNCHANGED <<procVars, fsVars, orchVars, page_details, in_flight, save_page_number,
                   subtitle_text, summary, sleeps, resolved, unsummarized>>

\* The texts a subtitle document or a transcription may come to: none,
\* white space only, and a text.
Transcripts == {EmptyStr, <<"\n">>, <<"T">>}

\* The texts the lines of a subtitle document may be joined to: those, and
\* a text with a carriage return inside a line.
Documents == Transcripts \cup {<<"T", "\r", "T">>}

\* main.py:83-88: the subtitle document is fetched and its lines joined.
GsHttp ==
    /\ pc = "gs_http"
    /\ CountCall("http_get")
    /\ \/ /\ subtitle_text' \in Documents
          /\ resolved' = Append(resolved, subtitle_text')
          /\ pc' = "gs_store"
          /\ UNCHANGED <<attempt, outcomes>>
       \/ /\ \E e \in ExceptionClasses : Raise(e, "resolver")
          /\ UNCHANGED <<subtitle_text, resolved>>
    /\ UNCHANGED <<procVars, fsVars, orchVars, page_details, in_flight, save_page_number,
                   summary, sleeps, unsummarized>>

\* main.py:92: download_audio.
GsAudio ==
    /\ pc = "gs_audio"
    /\ CountCall("download_audio")
    /\ \/ /\ pc' = "gs_transcribe"
          /\ UNCHANGED <<attempt, outcomes>>
       \/ \E e \in ExceptionClasses : Raise(e, "resolver")
    /\ UNCHANGED <<procVars, fsVars, orchVars, page_details, in_flight, save_page_number,
                   subtitle_text, summary, sleeps, resolved, unsummarized>>

\* main.py:93: generate_subtitles in "text" mode.
GsTranscribe ==
    /\ pc = "gs_transcribe"
    /\ CountCall("generate_subtitles")
    /\ \/ /\ subtitle_text' \in Transcripts
          /\ resolved' = Append(resolved, subtitle_text')
          /\ pc' = "gs_store"
          /\ UNCHANGED <<attempt, outcomes>>
       \/ /\ \E e \in ExceptionClasses : Raise(e, "resolver")
          /\ UNCHANGED <<subtitle_text, resolved>>
    /\ UNCHANGED <<procVars, fsVars, orchVars, page_details, in_flight, save_page_number,
                   summary, sleeps, unsummarized>>

\* main.py:96: whether the text is saved to the cache.
WorthCaching(text) == ~IsBlank(text)

\* main.py:96 and 101: nothing to cache, the text is returned.
GsReturnUncached ==
    /\ pc = "gs_store"
    /\ ~WorthCaching(subtitle_text)
    /\ pc' = "pp_check"
    /\ UNCHANGED <<procVars, fsVars, orchVars, pageVars, histVars>>

\* main.py:98: open(cache_file_path, "w") creates the file, empty, or
\* raises OSError.
GsCacheOpen ==
    /\ pc = "gs_store"
    /\ WorthCaching(subtitle_text)
    /\ \/ /\ cache' = WriteFile(cache, CacheFile,
                                [text |-> EmptyStr, mtime |-> now])
          /\ pc' = "gs_write"
          /\ UNCHANGED <<attempt, outcomes>>
       \/ /\ Raise("Exception", "resolver")
          /\ UNCHANGED cache
    /\ UNCHANGED <<procVars, out, orchVars, page_details, in_flight, save_page_number,
                   subtitle_text, summary, sleeps, resolved, calls, unsummarized>>

\* main.py:99-101: the text is written and the file closed, or the write
\* raises (OSError, UnicodeEncodeError) and leaves the file as it is.
GsCacheWrite ==
    /\ pc = "gs_write"
    /\ \/ /\ cache' = WriteFile(cache, CacheFile,
                                [text |-> subtitle_text, mtime |-> now])
          /\ pc' = "pp_check"
          /\ UNCHANGED <<attempt, outcomes>>
       \/ /\ Raise("Exception", "resolver")
          /\ UNCHANGED cache
    /\ UNCHANGED <<procVars, out, orchVars, page_details, in_flight, save_page_number,
                   subtitle_text, summary, sleeps, resolved, calls, unsummarized>>

-----------------------------------------------------------------------------
(* process_page: the body of an attempt                                    *)

\* main.py:116-118: an empty transcript ends process_page.
PpEmpty ==
    /\ pc = "pp_check"
    /\ IsBlank(subtitle_text)
    /\ outcomes' = Append(outcomes, Outcome("empty", "resolver"))
    /\ pc' = "pp_return"
    /\ UNCHANGED <<procVars, fsVars, orchVars, pageVars, sleeps, resolved, calls,
                   unsummarized>>

\* main.py:116 and 120: the transcript goes to the summarizer.
PpTranscript ==
    /\ pc = "pp_check"
    /\ ~IsBlank(subtitle_text)
    /\ pc' = "pp_summarize"
    /\ UNCHANGED <<procVars, fsVars, orchVars, pageVars, histVars>>

\* The completion service's answers: one of another shape, and well-shaped
\* ones whose first choice's content is the empty str or a text.
Responses == {[shaped |-> FALSE, content |-> NoneVal],
              [shaped |-> TRUE, content |-> EmptyStr],
              [shaped |-> TRUE, content |-> <<"S">>]}

\* summarize.py:23-32: the first choice's content, or None (the function
\* ends without a return) when the response has another shape.
summarize(response) == IF response.shaped THEN response.content ELSE NoneVal

\* The file save writes (main.py:50-54).
SavePath == OutputPath(save_page_number, page_details.part)

\* Every value the summarizer returns is saved.
AlwaysWorthSaving(s) == TRUE

\* main.py:121: whether the summary is saved.
WorthSaving(s) == Truthy(s)

\* main.py:120-126: the summarizer is called; a summary goes on to save,
\* none is logged and ends process_page.
PpSummarize ==
    /\ pc = "pp_summarize"
    /\ CountCall("summarize")
    /\ \/ \E response \in Responses :
             /\ summary' = summarize(response)
             /\ IF WorthSaving(summary')
                THEN /\ pc' = "save_open"
                     /\ UNCHANGED <<outcomes, unsummarized>>
                ELSE /\ pc' = "pp_return"
                     /\ outcomes' = Append(outcomes,
                                           Outcome("nosummary", "summarizer"))
                     /\ unsummarized' = unsummarized \cup {SavePath}
             /\ UNCHANGED attempt
       \/ /\ \E e \in ExceptionClasses : Raise(e, "summarizer")
          /\ UNCHANGED <<summary, unsummarized>>
    /\ UNCHANGED <<procVars, fsVars, orchVars, page_details, in_flight, save_page_number,
                   subtitle_text, sleeps, resolved>>

\* main.py:50-56: save creates the directory and opens the file, which
\* creates it, empty; os.makedirs or open may raise OSError.
SaveOpen ==
    /\ pc = "save_open"
    /\ CountCall("save")
    /\ \/ /\ out' = WriteFile(out, SavePath, EmptyStr)
          /\ pc' = "save_write"
          /\ UNCHANGED <<attempt, outcomes>>
       \/ /\ Raise("Exception", "writer")
          /\ UNCHANGED out
    /\ UNCHANGED <<procVars, cache, orchVars, page_details, in_flight, save_page_number,
                   subtitle_text, summary, sleeps, resolved, unsummarized>>

\* main.py:57-60 and 126: the content is written and the file closed, and
\* process_page returns; or the write raises (OSError, UnicodeEncodeError)
\* and leaves the file as it is.
SaveWrite ==
    /\ pc = "save_write"
    /\ \/ /\ out' = WriteFile(out, SavePath, summary)
          /\ outcomes' = Append(outcomes, Outcome("saved", "writer"))
          /\ pc' = "pp_return"
          /\ UNCHANGED attempt
       \/ /\ Raise("Exception", "writer")
          /\ UNCHANGED out
    /\ UNCHANGED <<procVars, cache, orchVars, page_details, in_flight, save_page_number,
                   subtitle_text, summary, sleeps, resolved, calls, unsummarized>>

-----------------------------------------------------------------------------
(* The life of a process                                                   *)

Ended == pc \in {"exit", "crashed", "killed"}

\* The process is terminated from outside (there is no other cancellation):
\* its memory is gone, the two directories stay as they are.
Kill ==
    /\ ~Ended
    /\ pc' = "killed"
    /\ FreshLocalsNext
    /\ cleanup_errors' = {}
    /\ UNCHANGED <<run, now, args, prompt_exists, cleanups, fsVars,
                   unsummarized>>

\* The program is started again, later, on the same two directories, with
\* the command line and the prompt file given.
Start(a, p) ==
    /\ Ended
    /\ run < MaxRuns
    /\ run' = run + 1
    /\ now' = now + RerunAfter
    /\ args' = a
    /\ prompt_exists' = p
    /\ cleanups' = 0
    /\ pc' = "main"
    /\ FreshLocalsNext
    /\ UNCHANGED <<fsVars, cleanup_errors, unsummarized>>

\* The next run, with any command line.
NextRun == \E a \in ArgsSet, p \in BOOLEAN : Start(a, p)

\* The next run, with the inputs of the run before.
Rerun == Start(args, prompt_exists)

\* The steps of a running process.
Step ==
    \/ Main \/ Dispatch
    \/ BvidSetup \/ BvidDone \/ BvidSkip \/ BvidCall \/ BvidNext
    \/ SeasonVideos \/ SeasonDone \/ SeasonVideo \/ SeasonVideoDone
    \/ SeasonSkip \/ SeasonCall \/ SeasonNext
    \/ PpAttempt \/ PpExhausted \/ PpSleep
    \/ GsCacheHit \/ GsCacheMiss \/ GsCid \/ GsMeta \/ GsHttp \/ GsAudio
    \/ GsTranscribe \/ GsReturnUncached \/ GsCacheOpen \/ GsCacheWrite
    \/ PpEmpty \/ PpTranscript \/ PpSummarize \/ SaveOpen \/ SaveWrite

Next == Step \/ Kill \/ NextRun

\* Runs that may be terminated from outside, each with inputs of its own.
Spec == Init /\ [][Next]_vars

NextRerun == Step \/ Rerun

\* Uninterrupted runs, each with the inputs of the first.
SpecRerun == Init /\ [][NextRerun]_vars

-----------------------------------------------------------------------------
(* Vocabulary of the properties                                            *)

\* process_page is inside the try block of an attempt.
InAttempt == pc \in {"gs_cache", "gs_cid", "gs_meta", "gs_http", "gs_audio",
                     "gs_transcribe", "gs_store", "gs_write", "pp_check",
                     "pp_summarize", "save_open", "save_write"}

\* process_page has been called and has not yet returned to its caller.
InPage == InAttempt \/ pc \in {"pp_loop", "pp_sleep", "pp_return"}

\* The attempts begun so far by the current process_page call.
AttemptsStarted == IF InAttempt THEN Len(outcomes) + 1 ELSE Len(outcomes)

\* How the latest finished attempt ended.
LastOutcome == outcomes[Len(outcomes)]

Returned(res) == pc = "pp_return" /\ outcomes # <<>> /\ LastOutcome.res = res

AllTransient == \A k \in 1..Len(outcomes) : outcomes[k].res = "transient"

\* The output file of the current page exists.
OutputExists == SavePath \in DOMAIN out

\* A step that returns from process_page into the orchestrator's loop, which
\* goes on with the page after this one.
BackInLoop ==
    /\ pc' = (IF args.mode = "season" THEN "season_pages" ELSE "bvid_loop")
    /\ idx' = idx + 1
    /\ all_pages' = all_pages

\* Transcripts that are absent, empty or white space only.
BlankTranscripts == {NoneVal, EmptyStr, <<" ">>, <<"\n">>, <<" ", "\n">>}

\* Summaries that are absent or empty.
NoSummaries == {NoneVal, EmptyStr}

-----------------------------------------------------------------------------
(* C1: process_page makes at most 3 attempts; when every attempt ends in a *)
(* transient network error it gives up after the 3rd, having written no    *)
(* output file, and it returns (it does not raise) to the orchestrator's   *)
(* loop, which goes on with the next page.                                 *)
C1_AtMostThreeAttempts ==
    /\ [](AttemptsStarted <= 3)
    /\ []((InPage /\ AllTransient /\ Len(outcomes) = 3)
              => /\ pc \in {"pp_loop", "pp_return"}
                 /\ ~OutputExists)
    /\ []((pc = "pp_return" /\ AllTransient) => Len(outcomes) \in {0, 3})
    /\ [][(pc = "pp_return" /\ pc' # "killed") => BackInLoop]_vars

\* Three attempts ended in a transient error, another page is waiting.
C1_Witness ==
    /\ pc = "pp_return"
    /\ Len(outcomes) = 3
    /\ AllTransient
    /\ ~OutputExists
    /\ idx < Len(all_pages)

-----------------------------------------------------------------------------
\* The failed attempts that were followed by a sleep: the transient
\* failures before the 3rd attempt (the latest one is, once the sleep is over).
SleptAfter ==
    {k \in 1..Len(outcomes) : /\ outcomes[k].res = "transient"
                              /\ k < 3
                              /\ ~(k = Len(outcomes) /\ pc = "pp_sleep")}

(* C2: the k-th attempt's transient failure is followed, when attempts     *)
(* remain, by a sleep of 5*k seconds; there is no other sleep (none after  *)
(* a success, none after the 3rd failure).  Two transient failures and a   *)
(* success give the sleeps 5, 10.                                          *)
C2_LinearBackoff ==
    /\ Len(sleeps) = Cardinality(SleptAfter)
    /\ \A k \in 1..Len(sleeps) : sleeps[k] = 5 * k /\ k \in SleptAfter
    /\ (Returned("saved") /\ Len(outcomes) = 3) => sleeps = <<5, 10>>

\* The resolver failed twice, the third attempt saved the summary.
C2_Witness ==
    /\ Returned("saved")
    /\ Len(outcomes) = 3
    /\ outcomes[1] = Outcome("transient", "resolver")
    /\ outcomes[2] = Outcome("transient", "resolver")
    /\ sleeps = <<5, 10>>
    /\ out[SavePath] = <<"S">>

-----------------------------------------------------------------------------
(* C3, as stated: when a step of an attempt raises an exception that is    *)
(* not a transient network error, process_page has made exactly one        *)
(* attempt, has not slept, and there is no output file.                    *)
C3_Original ==
    Returned("other") => /\ Len(outcomes) = 1
                         /\ sleeps = <<>>
                         /\ ~OutputExists

(* C3, amended: an attempt in which a step raises an exception that is not *)
(* a transient network error is the last one: no attempt and no sleep      *)
(* follow it (so it is the only attempt, without any sleep, when it is the *)
(* first), process_page does not raise and the batch goes on with the next *)
(* page.  No output file is produced when the resolver or the summarizer   *)
(* raised; when the writer raised, there is no file or the empty file its  *)
(* open() created.                                                         *)
C3_FailFast ==
    /\ [](\A k \in 1..Len(outcomes) :
              outcomes[k].res = "other"
                  => /\ k = Len(outcomes)
                     /\ pc = "pp_return"
                     /\ Len(sleeps) = k - 1
                     /\ \A j \in 1..(k - 1) : outcomes[j].res = "transient"
                     /\ outcomes[k].at \in {"resolver", "summarizer"}
                            => ~OutputExists
                     /\ outcomes[k].at = "writer"
                            => (OutputExists => out[SavePath] = EmptyStr))
    /\ [][(pc = "pp_return" /\ pc' # "killed") => BackInLoop]_vars

\* The writer raised in the first attempt, while writing: one attempt, no
\* sleep, and the empty file its open() created is in the output directory.
C3_Witness ==
    /\ Returned("other")
    /\ outcomes = <<Outcome("other", "writer")>>
    /\ sleeps = <<>>
    /\ OutputExists
    /\ out[SavePath] = EmptyStr

-----------------------------------------------------------------------------
(* C4: when the resolver returns an absent, empty or white-space-only      *)
(* transcript, process_page returns at once: the summarizer and the writer *)
(* are not called, no output file is written, no attempt follows.          *)
C4_EmptyTranscript ==
    /\ []((pc \in {"pp_summarize", "save_open", "save_write"}
              \/ (InPage /\ {"summarize", "save"} \cap calls # {}))
             => subtitle_text \notin BlankTranscripts)
    /\ [][(pc = "pp_check" /\ subtitle_text \in BlankTranscripts
               /\ pc' # "killed")
             => /\ pc' = "pp_return"
                /\ out' = out
                /\ calls' = calls
                /\ {"summarize", "save"} \cap calls = {}
                /\ ~OutputExists]_vars
    /\ [][(pc = "pp_return" /\ pc' # "killed") => BackInLoop]_vars

\* A white-space-only transcript ended process_page in its first attempt.
C4_Witness ==
    /\ Returned("empty")
    /\ subtitle_text = <<"\n">>
    /\ Len(outcomes) = 1
    /\ "summarize" \notin calls
    /\ ~OutputExists

-----------------------------------------------------------------------------
\* The output file of the page the orchestrator's loop is at.
LoopPath ==
    IF args.mode = "season"
    THEN OutputPath(global_page_counter, all_pages[idx].part)
    ELSE OutputPath(all_pages[idx].page, all_pages[idx].part)

\* The orchestrator's loop is at a page.
AtPage == pc \in {"bvid_loop", "season_pages"} /\ idx <= Len(all_pages)

\* A step in which the summarizer's call returns a value (it does not raise).
SummarizerReturned ==
    /\ pc = "pp_summarize"
    /\ pc' # "killed"
    /\ "summarize" \in calls'
    /\ ~(/\ Len(outcomes') = Len(outcomes) + 1
         /\ outcomes'[Len(outcomes')].res \in {"transient", "other"})

(* C5: when the summarizer returns absent or empty, process_page writes no *)
(* output file and makes no further attempt; a later run that comes to the *)
(* page, whose checkpoint file is still missing, calls process_page for it *)
(* instead of skipping it.                                                 *)
C5_NoSummary ==
    /\ []((pc \in {"save_open", "save_write"} \/ (InPage /\ "save" \in calls))
             => summary \notin NoSummaries)
    /\ [][(SummarizerReturned /\ summary' \in NoSummaries)
             => /\ pc' = "pp_return"
                /\ out' = out
                /\ ~OutputExists
                /\ "save" \notin calls'
                /\ SavePath \in unsummarized']_vars
    /\ [][(pc = "pp_return" /\ pc' # "killed") => BackInLoop]_vars
    /\ [][(AtPage /\ LoopPath \in unsummarized /\ LoopPath \notin DOMAIN out
                  /\ pc' # "killed")
             => /\ pc' = "pp_loop"
                /\ page_details' = all_pages[idx]
                /\ SavePath' = LoopPath]_vars

\* The second run calls process_page for a page whose summary came back
\* absent or empty in the first.
C5_Witness ==
    /\ run = 2
    /\ pc = "pp_loop"
    /\ outcomes = <<>>
    /\ SavePath \in unsummarized
    /\ ~OutputExists

-----------------------------------------------------------------------------
\* The five collaborators of get_subtitle.
ResolverCalls == {"get_cid", "get_subtitle", "http_get", "download_audio",
                  "generate_subtitles"}

(* C6: process_bvid run again on the same inputs and the same output       *)
(* directory: a page whose checkpoint file exists is skipped, with no call *)
(* of the resolver or of the summarizer; no step deletes or changes an     *)
(* existing output file, the only file written being one that the same     *)
(* call of process_page has just created, which did not exist before.      *)
C6_Idempotent ==
    /\ [][(args.mode = "bvid" /\ AtPage /\ LoopPath \in DOMAIN out
               /\ pc' # "killed")
             => /\ pc' = pc
                /\ idx' = idx + 1
                /\ out' = out
                /\ cache' = cache
                /\ calls' = {}
                /\ issued'[Len(issued')].skipped]_vars
    /\ []((args.mode = "bvid" /\ InPage /\ pc \notin {"save_write", "pp_return"})
             => ~OutputExists)
    /\ [][args.mode = "bvid"
             => \A p \in DOMAIN out :
                    /\ p \in DOMAIN out'
                    /\ out'[p] # out[p]
                           => /\ pc = "save_write"
                              /\ p = SavePath
                              /\ out[p] = EmptyStr]_vars
    /\ [][(args.mode = "bvid" /\ pc' = "save_write")
             => pc = "save_open" /\ ~OutputExists]_vars

\* The second run of process_bvid has skipped both pages, saved by the
\* first, and ends with the files as the first left them.
C6_Witness ==
    /\ run = 2
    /\ args.mode = "bvid"
    /\ pc = "exit"
    /\ Len(issued) = 2
    /\ \A i \in 1..2 : issued[i].skipped
    /\ out = (OutputPath(1, <<"a">>) :> <<"S">>)
             @@ (OutputPath(2, <<"b", "/", " ">>) :> <<"S">>)

-----------------------------------------------------------------------------
-----------------------------------------------------------------------------
(* C8, as stated: get_subtitle writes a cache file only for a text that is *)
(* not empty once trimmed, so that, outside of a call that is writing one, *)
(* every cache file holds such a text.                                     *)
C8_Original ==
    (pc # "gs_write")
        => \A p \in DOMAIN cache : cache[p].text \notin BlankTranscripts

-----------------------------------------------------------------------------
(* C9, as stated: when cleanup_cache has run, no cache file older than     *)
(* now minus 30 days is left.                                              *)
C9_Original ==
    pc = "dispatch"
        => \A p \in DOMAIN cache : cache[p].mtime >= now - 30 * 24 * 60 * 60

(* C9, amended: cleanup_cache removes every cache file whose modification  *)
(* time is older than now minus 30 days, except those whose stat or        *)
(* removal fails with OSError, which are logged and kept; it keeps,        *)
(* unchanged, every file that is not older than that (newer, or exactly at *)
(* the threshold) and creates none; it runs once per process, before any   *)
(* page is resolved.                                                       *)
C9_Eviction ==
    /\ [][(pc = "main" /\ pc' # "killed")
             => LET cutoff == now - 30 * 24 * 60 * 60
                    old    == {p \in DOMAIN cache : cache[p].mtime < cutoff}
                IN  /\ cleanup_errors' \subseteq DOMAIN cache
                    /\ DOMAIN cache' = (DOMAIN cache) \ (old \ cleanup_errors')
                    /\ \A p \in DOMAIN cache' : cache'[p] = cache[p]
                    /\ cleanups' = 1
                    /\ pc' = "dispatch"]_vars
    /\ [](cleanups <= 1)
    /\ []((InPage \/ pc \in {"dispatch", "bvid_setup", "bvid_loop",
                             "season_videos", "season_loop", "season_pages"})
             => cleanups = 1)
    /\ [][pc # "main" => (\A p \in DOMAIN cache : p \in DOMAIN cache')]_vars

\* The second run's cleanup has removed the file older than the threshold
\* and kept the one exactly at it and one the first run wrote.
C9_Witness ==
    /\ pc = "dispatch"
    /\ run = 2
    /\ now - 30 * 24 * 60 * 60 = 0 - 1
    /\ CacheFilePath("BV0", 1) \notin DOMAIN cache
    /\ CacheFilePath("BV0", 2) \in DOMAIN cache
    /\ CacheFilePath("BV1", 1) \in DOMAIN cache
    /\ cache[CacheFilePath("BV1", 1)] = [text |-> <<"T">>, mtime |-> 0]

-----------------------------------------------------------------------------
\* The place of a video in the season.
VideoIndex(bvid) == CHOOSE j \in 1..Len(Archives) : Archives[j].bvid = bvid

\* Page `a` comes before page `b` in video-then-page order.
Before(a, b) ==
    \/ VideoIndex(a.bvid) < VideoIndex(b.bvid)
    \/ a.bvid = b.bvid /\ a.page < b.page

(* C10: in season mode the counter starts at 1 and grows by one for every  *)
(* page enumerated, skipped, saved or failed alike: the save numbers of a  *)
(* run are 1, 2, ..., n in video-then-page order, whatever the pages'      *)
(* own numbers.                                                            *)
C10_SeasonNumbering ==
    args.mode = "season"
        => /\ \A i \in 1..Len(issued) : issued[i].number = i
           /\ \A i, j \in 1..Len(issued) :
                  i < j => Before(issued[i], issued[j])
           /\ pc \in {"season_loop", "season_pages"}
                  => global_page_counter = Len(issued) + 1
           /\ InPage => /\ global_page_counter = Len(issued)
                        /\ save_page_number = global_page_counter
                        /\ issued[Len(issued)].page = page_details.page
                        /\ issued[Len(issued)].bvid = CurrentBvid
           /\ Len(issued) = 3
                  => /\ issued[3].bvid = "BV2"
                     /\ issued[3].page = 1
                     /\ issued[3].number = 3

\* A season run that skipped its first page, failed on the second and saved
\* the third, the first page of the second video, as number 3.
C10_Witness ==
    /\ args.mode = "season"
    /\ pc = "exit"
    /\ Len(issued) = 3
    /\ issued[1].skipped /\ ~issued[2].skipped /\ ~issued[3].skipped
    /\ OutputPath(2, <<"b", "/", " ">>) \notin DOMAIN out
    /\ OutputPath(3, <<"c", ":">>) \in DOMAIN out
    /\ out[OutputPath(3, <<"c", ":">>)] = <<"S">>

-----------------------------------------------------------------------------
\* A step of process_season in which v.get_pages raised: the `continue` of
\* main.py:192 takes the loop to the next video_info.
FetchFailed ==
    /\ args.mode = "season"
    /\ pc = "season_loop"
    /\ vidx <= Len(video_list)
    /\ pc' = "season_loop"
    /\ vidx' = vidx + 1

\* The videos before the one the loop is at, none of whose pages has been
\* enumerated: their page lists could not be fetched.
SkippedVideos ==
    {j \in 1..Len(video_list) :
        /\ j < vidx
        /\ \A i \in 1..Len(issued) : issued[i].bvid # video_list[j].bvid}

(* C11: in season mode, when the fetch of a video's page list fails, none  *)
(* of the video's pages is processed, the counter stays as it is, and the  *)
(* loop goes on with the next video, whose first page gets the number the  *)
(* first page of the failed video would have got.                          *)
C11_FailedVideoSkipped ==
    /\ [][FetchFailed
             => /\ global_page_counter' = global_page_counter
                /\ issued' = issued
                /\ UNCHANGED <<fsVars, pageVars, histVars>>]_vars
    /\ []((args.mode = "season" /\ pc \in {"season_loop", "season_pages"}
              /\ vidx <= Len(video_list) /\ issued = <<>>)
             => global_page_counter = 1)
    /\ []((args.mode = "season" /\ InPage /\ SkippedVideos # {})
             => /\ CurrentBvid \notin {video_list[j].bvid : j \in SkippedVideos}
                /\ save_page_number = Len(issued))
    /\ []((args.mode = "season" /\ issued # <<>> /\ 1 \in SkippedVideos)
             => issued[1] = Enumerated("BV2", Archives[2].pages[1], 1,
                                       issued[1].skipped))

\* The first video's page list could not be fetched: the run ends having
\* saved the first page of the second video as number 1.
C11_Witness ==
    /\ args.mode = "season"
    /\ pc = "exit"
    /\ run = 1
    /\ SkippedVideos = {1}
    /\ issued = <<Enumerated("BV2", Archives[2].pages[1], 1, FALSE)>>
    /\ out = (OutputPath(1, <<"c", ":">>) :> <<"S">>)

-----------------------------------------------------------------------------
\* The page number lies in the range of the command line.
InArgsRange(n) ==
    /\ n >= args.start_page
    /\ (args.end_page = <<>> \/ n <= args.end_page[1])

\* process_bvid is in its loop over pages_to_process.
InBvidLoop == args.mode = "bvid" /\ (pc = "bvid_loop" \/ InPage)

\* The place of a page in the list the platform returns for the video.
PlatformIndex(bvid, page) ==
    CHOOSE k \in 1..Len(PagesOf(bvid)) : PagesOf(bvid)[k] = page

\* A video of five pages, numbered 1 to 5.
FivePages == [k \in 1..5 |-> [page |-> k, part |-> <<"a">>]]

(* C12: with --bvid and the inclusive range [start_page, end_page]         *)
(* (end_page possibly None), the pages considered are exactly those of the *)
(* video whose number lies in the range, in the platform's order, and a    *)
(* page is checked and dispatched under its own number: of pages 1..5,     *)
(* the range 2..4 keeps exactly 2, 3, 4.                                   *)
C12_RangeFilter ==
    /\ InBvidLoop
           => /\ \A k \in 1..Len(PagesOf(args.bvid)) :
                     InArgsRange(PagesOf(args.bvid)[k].page)
                         <=> \E i \in 1..Len(all_pages) :
                                 all_pages[i] = PagesOf(args.bvid)[k]
              /\ \A i, j \in 1..Len(all_pages) :
                     i < j => PlatformIndex(args.bvid, all_pages[i])
                                  < PlatformIndex(args.bvid, all_pages[j])
              /\ \A i \in 1..Len(issued) :
                     /\ issued[i].page = all_pages[i].page
                     /\ issued[i].number = issued[i].page
                     /\ InArgsRange(issued[i].number)
              /\ InPage => /\ page_details = all_pages[idx]
                           /\ save_page_number = page_details.page
                           /\ Len(issued) = idx
              /\ pc = "bvid_loop" => Len(issued) = idx - 1
    /\ PagesToProcess(FivePages, 2, <<4>>)
           = <<FivePages[2], FivePages[3], FivePages[4]>>
    /\ PagesToProcess(FivePages, 2, <<>>)
           = <<FivePages[2], FivePages[3], FivePages[4], FivePages[5]>>

\* --start-page 2 on the video of two pages: page 2 alone has been
\* considered, and saved as number 2.
C12_Witness ==
    /\ args = [mode |-> "bvid", bvid |-> "BV1", season_id |-> <<>>,
               start_page |-> 2, end_page |-> <<>>]
    /\ pc = "bvid_loop"
    /\ idx = 2
    /\ all_pages = <<Archives[1].pages[2]>>
    /\ issued = <<Enumerated("BV1", Archives[1].pages[2], 2, FALSE)>>
    /\ DOMAIN out = {OutputPath(2, <<"b", "/", " ">>)}

-----------------------------------------------------------------------------
\* The save number of an output file: the digits between "P" and "_".
NumberOf(path) == SubSeq(path, 2, 4)

\* The output files of a page: those named after its sanitized title (no
\* two pages of the platform have the same).
FilesOfPage(page) ==
    {p \in DOMAIN out :
        SubSeq(p, 5, Len(p)) = <<"_">> \o Sanitize(page.part) \o <<".", "m", "d">>}

\* The pages of the platform.
AllPages ==
    UNION {{Archives[j].pages[k] : k \in 1..Len(Archives[j].pages)} :
               j \in 1..Len(Archives)}

(* C13, as stated: across runs on the same output directory and the same   *)
(* platform data, a page-list fetch failing in one run and succeeding in   *)
(* another, the output directory never holds two files with the same P###  *)
(* number, and no page has output files under two numbers.                 *)
C13_Original ==
    /\ \A p, q \in DOMAIN out : NumberOf(p) = NumberOf(q) => p = q
    /\ \A page \in AllPages : Cardinality(FilesOfPage(page)) <= 1

\* The first video's page list could not be fetched in the first run and
\* was fetched in the second: two files are numbered P001, and the second
\* video's page has been summarized and saved twice, as P001 and as P003.
C13_Witness ==
    /\ args.mode = "season"
    /\ run = 2
    /\ pc = "exit"
    /\ OutputPath(1, <<"a">>) \in DOMAIN out
    /\ OutputPath(1, <<"c", ":">>) \in DOMAIN out
    /\ OutputPath(3, <<"c", ":">>) \in DOMAIN out
    /\ \A p \in DOMAIN out : out[p] = <<"S">>

-----------------------------------------------------------------------------
\* The checkpoint file of an enumerated page: the path the orchestrator
\* tested and process_page was to write.
IssuedPath(e) ==
    LET k == CHOOSE i \in 1..Len(PagesOf(e.bvid)) :
                 PagesOf(e.bvid)[i].page = e.page
    IN  OutputPath(e.number, PagesOf(e.bvid)[k].part)

(* C14, as stated: an output file is visible only with its full content:   *)
(* when a run has been interrupted, wherever it was, every output file     *)
(* holds a summary, and a page is only skipped on a file that holds one.   *)
C14_Original ==
    /\ pc = "killed" => \A p \in DOMAIN out : out[p] \notin NoSummaries
    /\ \A i \in 1..Len(issued) :
           issued[i].skipped => out[IssuedPath(issued[i])] \notin NoSummaries

\* The second run has skipped the two pages of the video, the first on an
\* empty file: no summary of that page has been written.
C14_Witness ==
    /\ run = 2
    /\ args.mode = "bvid"
    /\ pc = "exit"
    /\ Len(issued) = 2
    /\ issued[1].skipped /\ issued[2].skipped
    /\ out[IssuedPath(issued[1])] = EmptyStr
    /\ out[IssuedPath(issued[2])] = <<"S">>

-----------------------------------------------------------------------------
(* C15, as stated: when the prompt file is missing, in either mode, the    *)
(* run does not complete normally and no page is resolved, summarized or   *)
(* written.                                                                *)
C15_Original ==
    ~prompt_exists => /\ pc # "exit"
                      /\ ~InPage
                      /\ issued = <<>>

(* C15, amended: when the prompt file is missing, no page is checked,      *)
(* resolved, summarized or written in either mode, and the run ends with   *)
(* the uncaught FileNotFoundError as soon as the prompt is read: at the    *)
(* start of process_bvid, and in process_season at the first video of the  *)
(* loop; a season without videos never reads the prompt and completes      *)
(* normally.                                                               *)
C15_PromptMissing ==
    /\ [](~prompt_exists
             => /\ ~InPage
                /\ issued = <<>>
                /\ all_pages = <<>>
                /\ pc \notin {"bvid_loop", "season_pages"}
                /\ pc = "exit" => (args.mode = "season" /\ video_list = <<>>))
    /\ [][(~prompt_exists /\ run' = run)
             => /\ out' = out
                /\ DOMAIN cache' \subseteq DOMAIN cache
                /\ \A p \in DOMAIN cache' : cache'[p] = cache[p]]_vars
    /\ [][(~prompt_exists /\ pc' # "killed"
               /\ \/ pc = "bvid_setup"
                  \/ pc = "season_loop" /\ video_list # <<>>)
             => pc' = "crashed"]_vars

\* process_season has fetched the list of videos and stopped at the first
\* on the missing prompt file, the two directories as they were.
C15_Witness ==
    /\ ~prompt_exists
    /\ args.mode = "season"
    /\ pc = "crashed"
    /\ vidx = 1
    /\ global_page_counter = 1
    /\ out = <<>>
    /\ cache = InitialCache

-----------------------------------------------------------------------------
(* C16, as stated: a successful attempt writes one output file and is the  *)
(* last; in every reachable state (a save in progress apart) each output   *)
(* file holds a non-empty summary.                                         *)
C16_Original ==
    /\ Returned("saved") => (OutputExists /\ out[SavePath] = summary)
    /\ pc # "save_write" => \A p \in DOMAIN out : out[p] \notin NoSummaries

\* What holds of the writes: files are created one at a time, by save, at
\* the path built from the save number and the sanitized title; a save that
\* completes puts there the non-empty summary returned for the non-empty
\* transcript, and ends process_page; no file holds anything but that
\* summary or, when the write did not complete, nothing.
C16_SuccessWritesOne ==
    /\ [][DOMAIN out' # DOMAIN out
             => /\ pc = "save_open"
                /\ DOMAIN out' = DOMAIN out \cup {SavePath}
                /\ SavePath = <<"P">> \o ZeroPad(Decimal(save_page_number), 3)
                                \o <<"_">> \o Sanitize(page_details.part)
                                \o <<".", "m", "d">>]_vars
    /\ [][(pc = "save_write" /\ pc' = "pp_return"
               /\ outcomes'[Len(outcomes')].res = "saved")
             => /\ out' = [out EXCEPT ![SavePath] = summary]
                /\ summary \notin NoSummaries
                /\ subtitle_text \notin BlankTranscripts
                /\ "summarize" \in calls]_vars
    /\ [](\A k \in 1..Len(outcomes) :
              outcomes[k].res = "saved"
                  => /\ k = Len(outcomes)
                     /\ pc = "pp_return"
                     /\ out[SavePath] = summary)
    /\ [](\A p \in DOMAIN out : out[p] \in {EmptyStr, <<"S">>})

\* Two uninterrupted runs have ended and an output file is empty.
C16_Witness ==
    /\ run = 2
    /\ pc = "exit"
    /\ args.mode = "season"
    /\ Len(issued) = 3
    /\ \E p \in DOMAIN out : out[p] = EmptyStr
    /\ \E p \in DOMAIN out : out[p] = <<"S">>

-----------------------------------------------------------------------------
(* C17: in both orchestrators the pages are processed one after the other: *)
(* at most one page is inside process_page (resolving, summarizing,        *)
(* writing or sleeping) at any moment, and the next page is checked or     *)
(* dispatched only when the page before it has been skipped or has left    *)
(* process_page.                                                           *)
C17_Sequential ==
    /\ [](Cardinality(in_flight) <= 1)
    /\ [](IF InPage
          THEN /\ in_flight = {[bvid |-> CurrentBvid, page |-> page_details.page]}
               /\ issued # <<>>
               /\ issued[Len(issued)].bvid = CurrentBvid
               /\ issued[Len(issued)].page = page_details.page
               /\ ~issued[Len(issued)].skipped
          ELSE in_flight = {})
    /\ [][issued' # issued /\ issued' # <<>>
             => /\ in_flight = {}
                /\ pc \in {"bvid_loop", "season_pages"}
                /\ \E e \in [bvid : Bvids, page : 1..2, number : 1..3,
                             skipped : BOOLEAN] :
                       /\ issued' = Append(issued, e)
                       /\ in_flight' = IF e.skipped THEN {}
                                       ELSE {[bvid |-> e.bvid, page |-> e.page]}]_vars

\* The second page of the video is sleeping between two attempts, the
\* first page having been through process_page before it.
C17_Witness ==
    /\ pc = "pp_sleep"
    /\ args.mode = "bvid"
    /\ Len(issued) = 2
    /\ ~issued[1].skipped
    /\ in_flight = {[bvid |-> "BV1", page |-> 2]}
    /\ DOMAIN out = {OutputPath(1, <<"a">>)}

-----------------------------------------------------------------------------
(* C18, as stated: whenever get_subtitle returns a cache hit, the text it  *)
(* returns is a complete transcript, not empty once trimmed, of the kind a *)
(* resolution produces, whatever happened to earlier runs during their     *)
(* cache write: no empty or partial cache file is served as a hit.         *)
C18_Original ==
    [][(pc = "gs_cache" /\ CacheFile \in DOMAIN cache /\ pc' = "pp_check")
          => /\ ~IsBlank(subtitle_text')
             /\ \E t \in Documents : subtitle_text' = ReadText(t)]_vars

\* The second run has been served, as a hit, the empty cache file that the
\* first run left between open(cache_file_path, "w") and f.write.
C18_Witness ==
    /\ pc = "pp_check"
    /\ run = 2
    /\ calls = {}
    /\ CacheFile \in DOMAIN cache
    /\ cache[CacheFile] = [text |-> EmptyStr, mtime |-> 0]
    /\ subtitle_text = EmptyStr

-----------------------------------------------------------------------------
(* C19: when the stat or the removal of a cache file fails during the      *)
(* startup cleanup, the failure is logged and nothing is raised:           *)
(* cleanup_cache still removes every other file that is older than the     *)
(* threshold, keeps the files it failed on, and main goes on to the        *)
(* orchestrator.                                                           *)
C19_EvictionFailure ==
    /\ [][(pc = "main" /\ pc' # "killed")
             => LET cutoff == now - 30 * 24 * 60 * 60
                IN  /\ pc' = "dispatch"
                    /\ \A p \in DOMAIN cache :
                           IF p \in cleanup_errors'
                           THEN p \in DOMAIN cache' /\ cache'[p] = cache[p]
                           ELSE cache[p].mtime < cutoff
                                    => p \notin DOMAIN cache']_vars
    /\ [](cleanup_errors # {} => pc = "dispatch")
    /\ [][(pc = "dispatch" /\ pc' # "killed")
             => /\ pc' = IF args.mode = "season" THEN "season_videos"
                                                 ELSE "bvid_setup"
                /\ cache' = cache]_vars

\* The second run's cleanup failed on one of the two outdated files: it
\* has logged it and kept it, and removed the other.
C19_Witness ==
    /\ pc = "dispatch"
    /\ run = 2
    /\ cleanup_errors = {CacheFilePath("BV0", 1)}
    /\ CacheFilePath("BV0", 1) \in DOMAIN cache
    /\ CacheFilePath("BV0", 3) \notin DOMAIN cache
    /\ CacheFilePath("BV0", 2) \in DOMAIN cache

-----------------------------------------------------------------------------
\* process_page holds a transcript and is past get_subtitle.
HoldsTranscript == pc \in {"pp_check", "pp_summarize", "save_open", "save_write"}

(* C20, as stated: within one call of process_page, once the collaborators *)
(* of get_subtitle have given a transcript, every later attempt gets the   *)
(* same transcript from the cache, and the collaborators give a transcript *)
(* at most once.                                                           *)
C20_Original ==
    /\ [](Len(resolved) <= 1)
    /\ []((resolved # <<>> /\ HoldsTranscript) => subtitle_text = resolved[1])

(* C20, the part that holds: the collaborators give a transcript at most   *)
(* once per call of process_page; after that no attempt of the call calls  *)
(* any of them, every later attempt is a cache hit, and the transcript it  *)
(* gets is the cached one as read in text mode, which is the resolved one  *)
(* when it holds no carriage return.                                       *)
C20_ResolvedOnce ==
    /\ [](Len(resolved) <= 1)
    /\ [][resolved # <<>> => (calls' \cap ResolverCalls) \subseteq calls]_vars
    /\ []((resolved # <<>> /\ InAttempt /\ Len(outcomes) >= 1
              /\ outcomes[1].at = "summarizer")
             => /\ ResolverCalls \cap calls = {}
                /\ CacheFile \in DOMAIN cache
                /\ cache[CacheFile].text = resolved[1])
    /\ []((resolved # <<>> /\ HoldsTranscript)
             => subtitle_text = IF ResolverCalls \cap calls # {}
                                THEN resolved[1]
                                ELSE ReadText(resolved[1]))
    /\ []((resolved # <<>> /\ HoldsTranscript
              /\ \A i \in 1..Len(resolved[1]) : resolved[1][i] # "\r")
             => subtitle_text = resolved[1])

\* The second attempt, after a transient error of the summarizer in the
\* first, has got from the cache a transcript that is not the one the
\* subtitle document gave.
C20_Witness ==
    /\ pc = "pp_summarize"
    /\ attempt = 1
    /\ outcomes = <<Outcome("transient", "summarizer")>>
    /\ ResolverCalls \cap calls = {}
    /\ resolved = << <<"T", "\r", "T">> >>
    /\ cache[CacheFile].text = <<"T", "\r", "T">>
    /\ subtitle_text = <<"T", "\n", "T">>

=============================================================================
